---- MODULE Spec2Model ----
(***************************************************************************)
(* ninjaview: the build-log state reducer (src/build_log.rs).              *)
(*                                                                         *)
(* BuildState holds the list of log entries, the total edge count and the  *)
(* build status.  BuildState::update applies one StructLogMessage; its     *)
(* assert! / expect panics are modelled by the flag `panicked`, after      *)
(* which the thread that owns the state takes no further step.             *)
(***************************************************************************)
EXTENDS Integers, Sequences, FiniteSets, TLC

VARIABLES
    log_entries,    \* BuildState.log_entries : Vec<BuildLogEntry>
    total_edges,    \* BuildState.total_edges : usize
    build_status,   \* BuildState.build_status : BuildStatus
    panicked,       \* TRUE once update() has panicked (assert! / expect)
    last,           \* the message handed to the last call of update()
    prev,           \* the BuildState as it was when that call began
    latest_total,   \* Some(total) of the latest TotalEdges message, if any
    latest_status,  \* Some(status) of the latest BuildStatus message, if any
    selected,       \* App.list_state.selected() : Option<usize>
    events,         \* terminal events waiting to be read by event::read()
    consumer_pc,    \* where App::run stands: "try_recv", "poll", "draw", or how
                    \* it ended: "returned" (Ok) or "failed" (Err)
    ui_event,       \* which UIEvent read_event returned last
    producer_pc,    \* where the reader thread stands: "read", "send", ...
    line_entry,     \* the message the reader thread has decoded and not yet sent
    chan,           \* the mpsc channel: messages sent and not yet received
    decoded,        \* every message the reader thread has decoded so far
    applied,        \* every message handed to update() so far
    queued_at_recv, \* how many messages the latest try_recv left in the channel
    reader_end      \* how the reader thread ended and how far things were then

state_vars == <<log_entries, total_edges, build_status, panicked, last, prev,
                latest_total, latest_status>>

ui_vars == <<selected, events, consumer_pc, ui_event>>

producer_vars == <<producer_pc, line_entry>>

history_vars == <<decoded, applied, queued_at_recv, reader_end>>

app_vars == <<selected, events, consumer_pc, ui_event, producer_pc, line_entry, chan,
              decoded, applied, queued_at_recv, reader_end>>

vars == <<log_entries, total_edges, build_status, panicked, last, prev,
          latest_total, latest_status, selected, events, consumer_pc,
          ui_event, producer_pc, line_entry, chan, decoded, applied,
          queued_at_recv, reader_end>>

----------------------------------------------------------------------------
(* Bounds and input domains *)

MaxEdgeId == 2

EdgeIds == 1..MaxEdgeId

\* Option<T>: None is the empty sequence, Some(v) the one-element sequence.
None == <<>>
Some(v) == <<v>>

\* Command texts are sequences of characters: "g++ -c a.cpp -o a.o"
CmdGpp == <<"g","+","+"," ","-","c"," ","a",".","c","p","p"," ","-","o"," ","a",".","o">>

Commands == {CmdGpp}

StartTimes == {1000}
EndTimes == {1050, 1060}
Totals == {42, 50}

\* What a finished edge reports: success with no output, failure with some.
FinishResults == { [success |-> TRUE, output |-> ""],
                   [success |-> FALSE, output |-> "error"] }

InputEdgeType == {"Explicit", "Implicit", "OrderOnly"}
OutputEdgeType == {"Explicit", "Implicit"}
BuildStatus == {"NotStarted", "Running", "Finished"}

BuildEdgeInput(n, p, t) == [node_id |-> n, path |-> p, in_type |-> t]
BuildEdgeOutput(n, p, t) == [node_id |-> n, path |-> p, out_type |-> t]

InputLists ==
    { <<BuildEdgeInput(1, "a.cpp", "Explicit"), BuildEdgeInput(2, "a.h", "Implicit"),
        BuildEdgeInput(3, "gen", "OrderOnly")>> }

OutputLists ==
    { <<BuildEdgeOutput(4, "a.o", "Explicit"), BuildEdgeOutput(5, "a.d", "Implicit")>> }

BuildEdgeStartedMsgs ==
    [type : {"build_edge_started"}, edge_id : EdgeIds, command : Commands,
     start_time_millis : StartTimes, inputs : InputLists, outputs : OutputLists]

BuildEdgeFinishedMsgs ==
    { [type |-> "build_edge_finished", edge_id |-> id, end_time_millis |-> t,
       success |-> r.success, output |-> r.output] :
      id \in EdgeIds, t \in EndTimes, r \in FinishResults }

TotalEdgesMsgs == [type : {"total_edges"}, total : Totals]

BuildStatusMsgs == [type : {"build_status"}, status : BuildStatus]

----------------------------------------------------------------------------
(* guess_compiler *)

QQQ == <<"?", "?", "?">>

\* Index of the first occurrence of character c in s, 0 if there is none.
FirstIndexOf(s, c) ==
    IF \E i \in 1..Len(s) : s[i] = c
    THEN CHOOSE i \in 1..Len(s) : s[i] = c /\ \A j \in 1..(i-1) : s[j] # c
    ELSE 0

\* The pieces of s between occurrences of sep, left to right.
RECURSIVE SplitOn(_, _)
SplitOn(s, sep) ==
    LET i == FirstIndexOf(s, sep)
    IN IF i = 0 THEN <<s>>
       ELSE <<SubSeq(s, 1, i-1)>> \o SplitOn(SubSeq(s, i+1, Len(s)), sep)

\* Path::file_name: the last component of the path when it is a normal one.
\* Empty pieces (repeated or trailing separators) and "." pieces are not
\* components; a path ending in ".." or with no component has no file name.
file_name(path) ==
    LET pieces == SplitOn(path, "/")
        comps == SelectSeq(pieces, LAMBDA p : p # <<>> /\ p # <<".">>)
    IN IF comps = <<>> THEN None
       ELSE IF comps[Len(comps)] = <<".", ".">> THEN None
       ELSE Some(comps[Len(comps)])

guess_compiler(command) ==
    LET i == FirstIndexOf(command, " ")
    IN IF i = 0 THEN None
       ELSE file_name(SubSeq(command, 1, i-1))

unwrap_or(opt, default) == IF opt = None THEN default ELSE opt[1]

----------------------------------------------------------------------------
(* BuildState::update *)

\* Faulty variant: only order-only inputs are dropped, implicit ones are kept.
RECURSIVE ExplicitInputs_keep_implicit(_)
ExplicitInputs_keep_implicit(inputs) ==
    IF inputs = <<>> THEN <<>>
    ELSE IF Head(inputs).in_type # "OrderOnly"
         THEN <<Head(inputs).path>> \o ExplicitInputs_keep_implicit(Tail(inputs))
         ELSE ExplicitInputs_keep_implicit(Tail(inputs))

\* .iter().filter(|e| matches!(e.in_type, Explicit)).map(|o| o.path).collect()
RECURSIVE ExplicitInputs(_)
ExplicitInputs(inputs) ==
    IF inputs = <<>> THEN <<>>
    ELSE IF Head(inputs).in_type = "Explicit"
         THEN <<Head(inputs).path>> \o ExplicitInputs(Tail(inputs))
         ELSE ExplicitInputs(Tail(inputs))

\* .iter().map(|o| o.path).collect()
OutputPaths(outputs) == [i \in 1..Len(outputs) |-> outputs[i].path]

NewEntry(started) ==
    [edge_id |-> started.edge_id,
     success |-> None,
     command |-> started.command,
     compiler |-> unwrap_or(guess_compiler(started.command), QQQ),
     inputs |-> ExplicitInputs(started.inputs),
     outputs |-> OutputPaths(started.outputs),
     output |-> None,
     start_time_millis |-> started.start_time_millis,
     end_time_millis |-> None]

\* .iter().find(|e| e.edge_id == id): index of the first match, 0 if none.
FindEntry(entries, id) ==
    IF \E i \in 1..Len(entries) : entries[i].edge_id = id
    THEN CHOOSE i \in 1..Len(entries) :
            /\ entries[i].edge_id = id
            /\ \A j \in 1..(i-1) : entries[j].edge_id # id
    ELSE 0

\* Faulty variant: only a record that is still running blocks a new start.
StartedAssert_running_only(entries, started) ==
    \A i \in 1..Len(entries) :
        entries[i].edge_id = started.edge_id => entries[i].success # None

\* Faulty variant: the assertion is compiled out.
StartedAssert_off(entries, started) == TRUE

\* assert!(... .find(|e| e.edge_id == started.edge_id).is_none())
StartedAssert(entries, started) == FindEntry(entries, started.edge_id) = 0

\* Faulty variant: the new entry is inserted at the front.
PushEntry_front(entries, entry) == <<entry>> \o entries

\* self.log_entries.push(..)
PushEntry(entries, entry) == Append(entries, entry)

\* Faulty variant: the captured output is not stored.
FinishEntry_no_output(entry, finished) ==
    [entry EXCEPT !.success = Some(finished.success),
                  !.end_time_millis = Some(finished.end_time_millis)]

\* Faulty variant: every finished edge is recorded as a success.
FinishEntry_always_ok(entry, finished) ==
    [entry EXCEPT !.success = Some(TRUE),
                  !.output = Some(finished.output),
                  !.end_time_millis = Some(finished.end_time_millis)]

\* The three assignments to the found entry.
FinishEntry(entry, finished) ==
    [entry EXCEPT !.success = Some(finished.success),
                  !.output = Some(finished.output),
                  !.end_time_millis = Some(finished.end_time_millis)]

Ok(state) == [state |-> state, panicked |-> FALSE]
Panic(state) == [state |-> state, panicked |-> TRUE]

\* Faulty variant: a start for a known id is dropped without a panic.
update_started_skip(self, started) ==
    IF ~StartedAssert(self.log_entries, started)
    THEN Ok(self)
    ELSE Ok([self EXCEPT !.log_entries = PushEntry(@, NewEntry(started))])

update_started(self, started) ==
    IF ~StartedAssert(self.log_entries, started)
    THEN Panic(self)
    ELSE Ok([self EXCEPT !.log_entries = PushEntry(@, NewEntry(started))])

\* Faulty variant: a finish for an unknown id is dropped without a panic.
update_finished_skip(self, finished) ==
    LET i == FindEntry(self.log_entries, finished.edge_id)
    IN IF i = 0
       THEN Ok(self)
       ELSE Ok([self EXCEPT !.log_entries[i] = FinishEntry(@, finished)])

update_finished(self, finished) ==
    LET i == FindEntry(self.log_entries, finished.edge_id)
    IN IF i = 0
       THEN Panic(self)
       ELSE Ok([self EXCEPT !.log_entries[i] = FinishEntry(@, finished)])

\* Faulty variant: the total only ever grows.
update_total_max(self, message) ==
    Ok([self EXCEPT !.total_edges = IF message.total > @ THEN message.total ELSE @])

update_total(self, message) == Ok([self EXCEPT !.total_edges = message.total])

StatusRank(status) ==
    CASE status = "NotStarted" -> 0 [] status = "Running" -> 1 [] status = "Finished" -> 2

\* Faulty variant: the status never moves backwards.
update_status_forward(self, message) ==
    Ok([self EXCEPT !.build_status =
            IF StatusRank(message.status) >= StatusRank(@) THEN message.status ELSE @])

update_status(self, message) == Ok([self EXCEPT !.build_status = message.status])

update(self, message) ==
    CASE message.type = "build_edge_started" -> update_started(self, message)
      [] message.type = "build_edge_finished" -> update_finished(self, message)
      [] message.type = "total_edges" -> update_total(self, message)
      [] message.type = "build_status" -> update_status(self, message)

----------------------------------------------------------------------------
(* The state machine: messages applied one at a time to one BuildState *)

\* BuildState::new
new == [log_entries |-> <<>>, total_edges |-> 0, build_status |-> "NotStarted"]

build_state == [log_entries |-> log_entries, total_edges |-> total_edges,
                build_status |-> build_status]

NoMessage == [type |-> "none"]

Init ==
    /\ log_entries = new.log_entries
    /\ total_edges = new.total_edges
    /\ build_status = new.build_status
    /\ panicked = FALSE
    /\ last = NoMessage
    /\ prev = new
    /\ latest_total = None
    /\ latest_status = None
    /\ selected = Some(0)
    /\ events = <<>>
    /\ consumer_pc = "try_recv"
    /\ ui_event = "none"
    /\ producer_pc = "read"
    /\ line_entry = None
    /\ chan = <<>>
    /\ decoded = <<>>
    /\ applied = <<>>
    /\ queued_at_recv = 0
    /\ reader_end = None

\* One call self.build_state.update(message).  A panic unwinds out of the
\* call with the state as the handler left it, and nothing runs afterwards.
UpdateState(message) ==
    /\ ~panicked
    /\ LET r == update(build_state, message)
       IN /\ log_entries' = r.state.log_entries
          /\ total_edges' = r.state.total_edges
          /\ build_status' = r.state.build_status
          /\ panicked' = r.panicked
    /\ last' = message
    /\ prev' = build_state
    /\ latest_total' = IF message.type = "total_edges"
                       THEN Some(message.total) ELSE latest_total
    /\ latest_status' = IF message.type = "build_status"
                        THEN Some(message.status) ELSE latest_status

\* The call on its own, with nothing else of the application moving.
Update(message) == UpdateState(message) /\ UNCHANGED app_vars

ApplyEdgeStarted == \E m \in BuildEdgeStartedMsgs : Update(m)
ApplyEdgeFinished == \E m \in BuildEdgeFinishedMsgs : Update(m)
ApplyTotalEdges == \E m \in TotalEdgesMsgs : Update(m)
ApplyBuildStatus == \E m \in BuildStatusMsgs : Update(m)

Next ==
    \/ ApplyEdgeStarted
    \/ ApplyEdgeFinished
    \/ ApplyTotalEdges
    \/ ApplyBuildStatus

Spec == Init /\ [][Next]_vars

----------------------------------------------------------------------------
(* The derived fields of a new entry, over wider inputs: the first          *)
(* build_edge_started message of a run, with any command text or any        *)
(* input and output bindings.                                               *)

MaxCmdLen == 4
MaxBindings == 3

\* Letters, the space, a tab and the path separator.
Alphabet == {"g", "c", " ", "\t", "/"}

SeqsUpTo(S, n) == UNION { [1..k -> S] : k \in 0..n }

CommandTexts == SeqsUpTo(Alphabet, MaxCmdLen) \cup {CmdGpp}

Paths == {"a.cpp", "b.cpp"}

InputBindings == { BuildEdgeInput(1, p, t) : p \in Paths, t \in InputEdgeType }
OutputBindings == { BuildEdgeOutput(2, p, t) : p \in Paths, t \in OutputEdgeType }

StartedWith(command, inputs, outputs) ==
    [type |-> "build_edge_started", edge_id |-> 1, command |-> command,
     start_time_millis |-> 1000, inputs |-> inputs, outputs |-> outputs]

\* A run's first message starts an edge with an arbitrary command text.
StartCommand ==
    /\ log_entries = <<>>
    /\ \E command \in CommandTexts :
          Update(StartedWith(command, <<>>, <<>>))

SpecCompiler == Init /\ [][StartCommand]_vars

\* A run's first message starts an edge with arbitrary bindings.
StartBindings ==
    /\ log_entries = <<>>
    /\ \E inputs \in SeqsUpTo(InputBindings, MaxBindings),
          outputs \in SeqsUpTo(OutputBindings, MaxBindings) :
          Update(StartedWith(CmdGpp, inputs, outputs))

SpecBindings == Init /\ [][StartBindings]_vars

----------------------------------------------------------------------------
(* Properties of update, stated over the last call: `last` is its message, *)
(* `prev` the BuildState before it, the state variables the state after.   *)

Running(entry) == entry.success = None

HasId(entries, id) == \E i \in 1..Len(entries) : entries[i].edge_id = id

HasRunning(entries, id) ==
    \E i \in 1..Len(entries) : entries[i].edge_id = id /\ Running(entries[i])

\* The message was refused: update panicked and left the state untouched.
Rejected == panicked /\ build_state = prev

\* C1: a build_edge_finished whose edge id matches no entry at all makes
\* update panic, and log_entries, total_edges and build_status stay exactly
\* as they were before the message.
C1_FinishedUnknownIdRejected ==
    (last.type = "build_edge_finished" /\ ~HasId(prev.log_entries, last.edge_id))
        => Rejected

\* C1 witness: a finish for an unknown id was refused while another edge
\* was already in the log.
C1_Witness ==
    /\ last.type = "build_edge_finished"
    /\ ~HasId(prev.log_entries, last.edge_id)
    /\ Len(prev.log_entries) = 1
    /\ panicked
    /\ build_state = prev

\* C2 (as claimed): a second build_edge_finished for an id whose entry is
\* already finished makes update panic and leaves that entry's end time,
\* outcome and captured output as they were.
C2_SecondFinishRejected ==
    (/\ last.type = "build_edge_finished"
     /\ HasId(prev.log_entries, last.edge_id)
     /\ ~HasRunning(prev.log_entries, last.edge_id))
        => Rejected

\* C3: a build_edge_started whose id already has a running entry makes
\* update panic; no entry is appended and no entry, total_edges or
\* build_status changes.
C3_StartedWhileRunningRejected ==
    (last.type = "build_edge_started" /\ HasRunning(prev.log_entries, last.edge_id))
        => Rejected

\* C3 witness: a start for an id that was still running was refused.
C3_Witness ==
    /\ last.type = "build_edge_started"
    /\ HasRunning(prev.log_entries, last.edge_id)
    /\ Len(prev.log_entries) = 2
    /\ panicked
    /\ build_state = prev

\* C4 (as claimed): a build_edge_started is refused only when an entry with
\* its id is running; when every entry with that id is finished it is
\* accepted and a new running entry with that id is appended.
C4_StartedAfterFinishAccepted ==
    (last.type = "build_edge_started" /\ ~HasRunning(prev.log_entries, last.edge_id))
        => /\ ~panicked
           /\ Len(log_entries) = Len(prev.log_entries) + 1
           /\ log_entries[Len(log_entries)].edge_id = last.edge_id
           /\ Running(log_entries[Len(log_entries)])

\* C4 (amended): a build_edge_started is refused whenever any entry with its
\* id exists, running or finished; it is accepted, and one new running entry
\* with that id appended, exactly when no entry has that id.
C4_StartedRejectedIffIdKnown ==
    last.type = "build_edge_started" =>
        IF HasId(prev.log_entries, last.edge_id)
        THEN Rejected
        ELSE /\ ~panicked
             /\ log_entries = Append(prev.log_entries, log_entries[Len(log_entries)])
             /\ log_entries[Len(log_entries)].edge_id = last.edge_id
             /\ Running(log_entries[Len(log_entries)])

\* C4 witness: a start for an id whose only entry had already finished was
\* refused.
C4_Witness ==
    /\ last.type = "build_edge_started"
    /\ HasId(prev.log_entries, last.edge_id)
    /\ ~HasRunning(prev.log_entries, last.edge_id)
    /\ panicked
    /\ build_state = prev

\* C5: log_entries is append-only.  After any call of update the previous
\* list is a prefix of the new one as far as edge_id, command, inputs,
\* outputs and start_time_millis go; the length grows by exactly one on an
\* accepted build_edge_started, whose entry is the last one, and by nothing
\* otherwise.
C5_AppendOnly ==
    LET old == prev.log_entries
        n == Len(log_entries)
        accepted == last.type = "build_edge_started" /\ ~panicked
    IN /\ n = Len(old) + (IF accepted THEN 1 ELSE 0)
       /\ \A i \in 1..Len(old) :
            /\ i <= n
            /\ log_entries[i].edge_id = old[i].edge_id
            /\ log_entries[i].command = old[i].command
            /\ log_entries[i].inputs = old[i].inputs
            /\ log_entries[i].outputs = old[i].outputs
            /\ log_entries[i].start_time_millis = old[i].start_time_millis
       /\ accepted =>
            /\ log_entries[n].edge_id = last.edge_id
            /\ log_entries[n].command = last.command
            /\ log_entries[n].start_time_millis = last.start_time_millis

\* C5 witness: a second entry was appended behind one that had already
\* been finished.
C5_Witness ==
    /\ last.type = "build_edge_started"
    /\ ~panicked
    /\ Len(prev.log_entries) = 1
    /\ ~Running(prev.log_entries[1])
    /\ Len(log_entries) = 2
    /\ log_entries[2].edge_id = last.edge_id
    /\ log_entries[1].edge_id = prev.log_entries[1].edge_id

\* C6: in every entry success, end_time_millis and output are None together
\* or Some together, and a newly appended entry has all three None.
C6_FinishFieldsCoupled ==
    /\ \A i \in 1..Len(log_entries) :
         /\ (log_entries[i].success = None) <=> (log_entries[i].end_time_millis = None)
         /\ (log_entries[i].end_time_millis = None) <=> (log_entries[i].output = None)
    /\ (last.type = "build_edge_started" /\ ~panicked) =>
         LET e == log_entries[Len(log_entries)]
         IN e.success = None /\ e.end_time_millis = None /\ e.output = None

\* C6 witness: a finished entry, with all three fields set, next to a
\* running one.
C6_Witness ==
    /\ Len(log_entries) = 2
    /\ log_entries[1].success # None
    /\ log_entries[1].end_time_millis # None
    /\ log_entries[1].output # None
    /\ Running(log_entries[2])
    /\ last.type = "build_edge_finished"
    /\ ~panicked

\* C7: log_entries never holds two running entries with the same edge id.
C7_OneRunningPerId ==
    \A i, j \in 1..Len(log_entries) :
        (/\ i # j
         /\ log_entries[i].edge_id = log_entries[j].edge_id
         /\ Running(log_entries[i]))
            => ~Running(log_entries[j])

\* C7 witness: two edges are running at once and a further start for one of
\* their ids has just been attempted.
C7_Witness ==
    /\ Len(log_entries) = 2
    /\ Running(log_entries[1])
    /\ Running(log_entries[2])
    /\ last.type = "build_edge_started"
    /\ last.edge_id = log_entries[1].edge_id
    /\ panicked

\* C8: a build_edge_finished for an id with a running entry is accepted and
\* sets, on that entry only, end_time_millis and output to the message's and
\* success to the message's flag; every other entry, the length of
\* log_entries, total_edges and build_status are unchanged.
C8_FinishedSetsRunningEntry ==
    (last.type = "build_edge_finished" /\ HasRunning(prev.log_entries, last.edge_id))
        => /\ ~panicked
           /\ total_edges = prev.total_edges
           /\ build_status = prev.build_status
           /\ Len(log_entries) = Len(prev.log_entries)
           /\ \A i \in 1..Len(prev.log_entries) :
                LET old == prev.log_entries[i]
                IN IF old.edge_id = last.edge_id /\ Running(old)
                   THEN log_entries[i] =
                            [old EXCEPT !.success = Some(last.success),
                                        !.output = Some(last.output),
                                        !.end_time_millis = Some(last.end_time_millis)]
                   ELSE log_entries[i] = old

\* C8 witness: of two running edges the second one has just finished as a
\* failure, the first is still running.
C8_Witness ==
    /\ last.type = "build_edge_finished"
    /\ ~last.success
    /\ ~panicked
    /\ Len(prev.log_entries) = 2
    /\ Running(prev.log_entries[1])
    /\ Running(prev.log_entries[2])
    /\ prev.log_entries[2].edge_id = last.edge_id
    /\ log_entries[2].success = Some(FALSE)
    /\ log_entries[1] = prev.log_entries[1]

\* C9: a total_edges message is always accepted and sets total_edges to its
\* total whatever the old value and the number of entries, leaving
\* log_entries and build_status alone; at any time total_edges is the total
\* of the latest total_edges message, 0 if there was none.
C9_TotalEdgesOverwritten ==
    /\ last.type = "total_edges" =>
         /\ ~panicked
         /\ total_edges = last.total
         /\ log_entries = prev.log_entries
         /\ build_status = prev.build_status
    /\ total_edges = unwrap_or(latest_total, 0)

\* C9 witness: a smaller total has just replaced a larger one, with a
\* single entry in the log.
C9_Witness ==
    /\ last.type = "total_edges"
    /\ prev.total_edges = 50
    /\ last.total = 42
    /\ total_edges = 42
    /\ Len(log_entries) = 1

\* C10: a build_status message is always accepted from any status to any
\* status, sets build_status to its status and leaves log_entries and
\* total_edges alone; build_status is NotStarted until the first one.
C10_BuildStatusOverwritten ==
    /\ last.type = "build_status" =>
         /\ ~panicked
         /\ build_status = last.status
         /\ log_entries = prev.log_entries
         /\ total_edges = prev.total_edges
    /\ build_status = unwrap_or(latest_status, "NotStarted")

\* C10 witness: the status has just moved backwards from Finished to
\* NotStarted.
C10_Witness ==
    /\ last.type = "build_status"
    /\ prev.build_status = "Finished"
    /\ last.status = "NotStarted"
    /\ build_status = "NotStarted"
    /\ ~panicked

----------------------------------------------------------------------------
(* App::select_log, over any selection, any offset and any log length *)

\* usize and isize are modelled UsizeBits wide.
UsizeBits == 8
UsizeMax == 2^UsizeBits - 1
IsizeMax == 2^(UsizeBits - 1) - 1
IsizeMin == -(2^(UsizeBits - 1))

MaxSelLen == 3

\* Faulty variant: the sum wraps around instead of saturating.
saturating_add_signed_wrapping(lhs, rhs) == (lhs + rhs) % (UsizeMax + 1)

\* usize::saturating_add_signed
saturating_add_signed(lhs, rhs) ==
    LET sum == lhs + rhs
    IN IF sum < 0 THEN 0 ELSE IF sum > UsizeMax THEN UsizeMax ELSE sum

\* Faulty variant: the sum is not clamped to the last index.
Min_first(a, b) == a

Min(a, b) == IF a <= b THEN a ELSE b

\* The selection select_log(offset) leaves behind.
select_log(entries, current, offset) ==
    IF entries = <<>>
    THEN None
    ELSE Some(Min(saturating_add_signed(unwrap_or(current, 0), offset),
                  Len(entries) - 1))

\* One call self.select_log(offset).
SelectLog(offset) ==
    /\ selected' = select_log(log_entries, selected, offset)
    /\ last' = [type |-> "select_log", offset |-> offset, selected |-> selected]
    /\ prev' = build_state
    /\ UNCHANGED <<log_entries, total_edges, build_status, panicked,
                   latest_total, latest_status, events, consumer_pc, ui_event,
                   producer_vars, chan, history_vars>>

Offsets == {IsizeMin, -2, -1, 0, 1, 2, IsizeMax}

Selections == {None} \cup {Some(i) : i \in 0..MaxSelLen} \cup {Some(UsizeMax)}

\* A log of n running entries with the ids 1..n.
EntriesOfLen(n) ==
    [i \in 1..n |-> NewEntry([StartedWith(CmdGpp, <<>>, <<>>) EXCEPT !.edge_id = i])]

InitSelect ==
    /\ \E n \in 0..MaxSelLen : log_entries = EntriesOfLen(n)
    /\ selected \in Selections
    /\ total_edges = new.total_edges
    /\ build_status = new.build_status
    /\ panicked = FALSE
    /\ last = NoMessage
    /\ prev = build_state
    /\ latest_total = None
    /\ latest_status = None
    /\ events = <<>>
    /\ consumer_pc = "try_recv"
    /\ ui_event = "none"
    /\ producer_pc = "read"
    /\ line_entry = None
    /\ chan = <<>>
    /\ decoded = <<>>
    /\ applied = <<>>
    /\ queued_at_recv = 0
    /\ reader_end = None

CallSelectLog == \E offset \in Offsets : SelectLog(offset)

SpecSelect == InitSelect /\ [][CallSelectLog]_vars

----------------------------------------------------------------------------
(* The application: the reader thread of spawn_reader and the loop of      *)
(* App::run, joined by the mpsc channel.  Terminal input and output are    *)
(* taken to succeed.                                                        *)

MaxLines == 3
MaxPending == 1

\* The lines of the log that decode, and what they decode to.
AppMessages ==
    { StartedWith(CmdGpp, <<>>, <<>>),
      [type |-> "build_edge_finished", edge_id |-> 1, end_time_millis |-> 1050,
       success |-> TRUE, output |-> ""] }

\* Key presses: quit, down, up, and any other terminal event.
Keys == {"q", "j", "k", "other"}

\* The receiver lives in the App, which is gone once run has ended.
ReceiverAlive == consumer_pc \notin {"returned", "failed"} /\ ~panicked

\* The sender is dropped when the reader thread ends, however it ends.
SenderDropped == producer_pc \in {"done", "decode_panic", "send_panic"}

\* What is recorded when the reader thread ends.
ReaderEnd(how) ==
    IF reader_end = None
    THEN Some([how |-> how, decoded |-> Len(decoded), applied |-> Len(applied)])
    ELSE reader_end

\* lines().next() yields a line and serde_json::from_str decodes it.
DecodeLine(message) ==
    /\ producer_pc = "read"
    /\ line_entry' = Some(message)
    /\ producer_pc' = "send"
    /\ UNCHANGED <<state_vars, ui_vars, chan, applied, queued_at_recv,
                   reader_end>>

ProducerDecode ==
    \E message \in AppMessages :
        /\ Len(decoded) < MaxLines
        /\ DecodeLine(message)
        /\ decoded' = Append(decoded, message)

\* Faulty variant: a line that does not decode is skipped.
AfterDecodeError_skip(pc) == "read"

\* from_str(..).expect("Could not parse json") panics and ends the thread.
AfterDecodeError(pc) == "decode_panic"

\* lines().next() yields a line that does not decode.
ProducerDecodeFails ==
    /\ producer_pc = "read"
    /\ producer_pc' = AfterDecodeError(producer_pc)
    /\ reader_end' = ReaderEnd("decode")
    /\ UNCHANGED <<state_vars, ui_vars, line_entry, chan, decoded, applied,
                   queued_at_recv>>

\* lines().next() yields None: the for loop and the thread end.
ProducerEof ==
    /\ producer_pc = "read"
    /\ producer_pc' = "done"
    /\ reader_end' = ReaderEnd("eof")
    /\ UNCHANGED <<state_vars, ui_vars, line_entry, chan, decoded, applied,
                   queued_at_recv>>

\* Faulty variant: a rendezvous channel, which takes a message only when
\* the previous one has been received.
SendReady_rendezvous(ch) == ch = <<>>

\* mpsc::channel() is unbounded: send never waits for room.
SendReady(ch) == TRUE

\* tx.send(entry).unwrap(): the message joins the channel, or the send
\* fails because the receiver is gone and unwrap panics.
Send ==
    /\ producer_pc = "send"
    /\ SendReady(chan)
    /\ IF ReceiverAlive
       THEN chan' = Append(chan, line_entry[1]) /\ producer_pc' = "read"
       ELSE chan' = chan /\ producer_pc' = "send_panic"
    /\ line_entry' = None
    /\ UNCHANGED <<state_vars, ui_vars>>

ProducerSend ==
    /\ Send
    /\ reader_end' = IF ReceiverAlive THEN reader_end ELSE ReaderEnd("send")
    /\ UNCHANGED <<decoded, applied, queued_at_recv>>

\* Faulty variant: the newest message is received first.
try_recv_newest(ch) ==
    IF ch = <<>> THEN [ok |-> FALSE]
    ELSE [ok |-> TRUE, msg |-> ch[Len(ch)], rest |-> SubSeq(ch, 1, Len(ch) - 1)]

\* Receiver::try_recv: the oldest message if there is one.
try_recv(ch) ==
    IF ch = <<>> THEN [ok |-> FALSE]
    ELSE [ok |-> TRUE, msg |-> Head(ch), rest |-> Tail(ch)]

\* run: after self.build_state.update(msg) comes self.draw(terminal).
AfterUpdate(pc) == "draw"

\* read_event gets Ok(event) from try_recv and returns it; run hands it to
\* update, which may panic.
Receive ==
    /\ consumer_pc = "try_recv"
    /\ ~panicked
    /\ try_recv(chan).ok
    /\ chan' = try_recv(chan).rest
    /\ UpdateState(try_recv(chan).msg)
    /\ ui_event' = "BuildLog"
    /\ consumer_pc' = AfterUpdate(consumer_pc)
    /\ queued_at_recv' = Len(try_recv(chan).rest)
    /\ UNCHANGED <<selected, events, producer_vars, reader_end>>

ConsumerReceive ==
    /\ Receive
    /\ applied' = Append(applied, try_recv(chan).msg)
    /\ UNCHANGED decoded

\* Faulty variant: a closed channel ends the loop with an error.
AfterTryRecvError_fatal(err) == IF err = "Disconnected" THEN "failed" ELSE "poll"

\* Err(Empty) => {} and Err(Disconnected) => {}: on to event::poll.
AfterTryRecvError(err) == "poll"

\* try_recv finds nothing: the channel is empty, or empty and closed.
ConsumerReceiveNone ==
    /\ consumer_pc = "try_recv"
    /\ ~panicked
    /\ ~try_recv(chan).ok
    /\ consumer_pc' = AfterTryRecvError(IF SenderDropped THEN "Disconnected" ELSE "Empty")
    /\ queued_at_recv' = 0
    /\ UNCHANGED <<state_vars, selected, events, ui_event, producer_vars, chan,
                   decoded, applied, reader_end>>

\* event::poll(100 ms) returns false: read_event loops back to try_recv.
ConsumerPollTimeout ==
    /\ consumer_pc = "poll"
    /\ ~panicked
    /\ events = <<>>
    /\ consumer_pc' = "try_recv"
    /\ UNCHANGED <<state_vars, selected, events, ui_event, producer_vars, chan,
                   history_vars>>

\* event::poll returns true, event::read yields the event and run handles it.
ConsumerKey ==
    /\ consumer_pc = "poll"
    /\ ~panicked
    /\ events # <<>>
    /\ events' = Tail(events)
    /\ ui_event' = "UserAction"
    /\ LET key == Head(events)
       IN /\ consumer_pc' = IF key = "q" THEN "returned" ELSE "draw"
          /\ selected' = CASE key = "j" -> select_log(log_entries, selected, 1)
                           [] key = "k" -> select_log(log_entries, selected, -1)
                           [] OTHER -> selected
    /\ UNCHANGED <<state_vars, producer_vars, chan, history_vars>>

\* What rendering the list may make of the selection: the list widget gets
\* &mut list_state and, depending on its version, leaves the selection as
\* it is or pulls it into the list (none for an empty list).
rendered_selection(entries, current) ==
    { current,
      IF entries = <<>> THEN None
      ELSE IF current # None /\ current[1] >= Len(entries)
           THEN Some(Len(entries) - 1) ELSE current }

\* self.draw(terminal)
ConsumerDraw ==
    /\ consumer_pc = "draw"
    /\ ~panicked
    /\ consumer_pc' = "try_recv"
    /\ selected' \in rendered_selection(log_entries, selected)
    /\ UNCHANGED <<state_vars, events, ui_event, producer_vars, chan, decoded,
                   applied, queued_at_recv, reader_end>>

\* The user presses a key while the application runs.
UserPress ==
    \E key \in Keys :
        /\ ReceiverAlive
        /\ Len(events) < MaxPending
        /\ events' = Append(events, key)
        /\ UNCHANGED <<state_vars, selected, consumer_pc, ui_event, producer_vars,
                       chan, history_vars>>

ProducerStep == ProducerDecode \/ ProducerDecodeFails \/ ProducerEof \/ ProducerSend

ConsumerStep ==
    ConsumerReceive \/ ConsumerReceiveNone \/ ConsumerPollTimeout \/ ConsumerKey
        \/ ConsumerDraw

NextApp ==
    \/ ProducerDecode
    \/ ProducerDecodeFails
    \/ ProducerEof
    \/ ProducerSend
    \/ ConsumerReceive
    \/ ConsumerReceiveNone
    \/ ConsumerPollTimeout
    \/ ConsumerKey
    \/ ConsumerDraw
    \/ UserPress

SpecApp == Init /\ [][NextApp]_vars

\* Both threads keep running as long as they have a step to take.
FairSpecApp == SpecApp /\ WF_vars(ProducerStep) /\ WF_vars(ConsumerStep)

----------------------------------------------------------------------------
(* A log that never ends                                                   *)
(*                                                                         *)
(* The reader thread follows a build that keeps writing lines. The lines   *)
(* are total_edges messages, which update always accepts. What is recorded *)
(* of the decoded and applied messages is left as it is, and a line is     *)
(* read only while the channel holds fewer than MaxChan messages.          *)

MaxChan == 2

StreamMessages == {[type |-> "total_edges", total |-> t] : t \in Totals}

StreamDecode ==
    \E message \in StreamMessages :
        /\ Len(chan) < MaxChan
        /\ DecodeLine(message)
        /\ UNCHANGED decoded

StreamReceive ==
    /\ Receive
    /\ UNCHANGED <<decoded, applied>>

StreamProducerStep == StreamDecode \/ ProducerSend

StreamConsumerStep ==
    StreamReceive \/ ConsumerReceiveNone \/ ConsumerPollTimeout \/ ConsumerKey
        \/ ConsumerDraw

NextStream ==
    \/ StreamDecode
    \/ ProducerSend
    \/ StreamReceive
    \/ ConsumerReceiveNone
    \/ ConsumerPollTimeout
    \/ ConsumerKey
    \/ ConsumerDraw
    \/ UserPress

SpecStream == Init /\ [][NextStream]_vars

FairSpecStream ==
    SpecStream /\ WF_vars(StreamProducerStep) /\ WF_vars(StreamConsumerStep)

----------------------------------------------------------------------------
(* Navigation in a growing log                                             *)
(*                                                                         *)
(* The log holds the start of one edge after another while the user moves  *)
(* the selection.                                                          *)

NavMessages == {[StartedWith(CmdGpp, <<>>, <<>>) EXCEPT !.edge_id = i] : i \in EdgeIds}

NavDecode ==
    \E message \in NavMessages :
        /\ Len(decoded) < MaxLines
        /\ DecodeLine(message)
        /\ decoded' = Append(decoded, message)

NextNav ==
    \/ NavDecode
    \/ ProducerEof
    \/ ProducerSend
    \/ ConsumerReceive
    \/ ConsumerReceiveNone
    \/ ConsumerPollTimeout
    \/ ConsumerKey
    \/ ConsumerDraw
    \/ UserPress

SpecNav == Init /\ [][NextNav]_vars

----------------------------------------------------------------------------
(* Derived fields of a new entry *)

Whitespace == {" ", "\t"}

\* The first whitespace-delimited token of a command text: what precedes its
\* first whitespace character, the whole text when it has none.
FirstToken(command) ==
    IF \E i \in 1..Len(command) : command[i] \in Whitespace
    THEN LET i == CHOOSE k \in 1..Len(command) :
                    /\ command[k] \in Whitespace
                    /\ \A j \in 1..(k-1) : command[j] \notin Whitespace
         IN SubSeq(command, 1, i-1)
    ELSE command

\* C11 (as claimed): for every command text over letters, space, tab and
\* the path separator the compiler name of the new entry is the final path
\* component of the command's first whitespace-delimited token, or "???".
C11_CompilerIsFirstTokenName ==
    (last.type = "build_edge_started" /\ ~panicked /\ Len(log_entries) = 1)
        => LET name == log_entries[1].compiler
               token == FirstToken(last.command)
           IN \/ name = QQQ
              \/ file_name(token) # None /\ name = file_name(token)[1]

\* C12: the new entry's inputs are the paths of the message's input
\* bindings tagged Explicit, in the message's order and with repetitions
\* kept, and its outputs are the paths of all output bindings in order.
C12_InputsExplicitOutputsAll ==
    (last.type = "build_edge_started" /\ ~panicked) =>
        LET e == log_entries[Len(log_entries)]
            explicit == SelectSeq(last.inputs, LAMBDA b : b.in_type = "Explicit")
        IN /\ Len(e.inputs) = Len(explicit)
           /\ \A i \in 1..Len(explicit) : e.inputs[i] = explicit[i].path
           /\ Len(e.outputs) = Len(last.outputs)
           /\ \A i \in 1..Len(last.outputs) : e.outputs[i] = last.outputs[i].path

\* C12 witness: of three input bindings the implicit middle one was
\* dropped and the repeated explicit path kept twice, while an implicit
\* output was kept behind an explicit one.
C12_Witness ==
    /\ last.type = "build_edge_started"
    /\ ~panicked
    /\ Len(last.inputs) = 3
    /\ last.inputs[1].in_type = "Explicit" /\ last.inputs[1].path = "b.cpp"
    /\ last.inputs[2].in_type = "Implicit"
    /\ last.inputs[3].in_type = "Explicit" /\ last.inputs[3].path = "b.cpp"
    /\ log_entries[1].inputs = <<"b.cpp", "b.cpp">>
    /\ Len(last.outputs) = 2
    /\ last.outputs[1].out_type = "Explicit" /\ last.outputs[1].path = "b.cpp"
    /\ last.outputs[2].out_type = "Implicit" /\ last.outputs[2].path = "a.cpp"
    /\ log_entries[1].outputs = <<"b.cpp", "a.cpp">>

----------------------------------------------------------------------------
(* Navigation *)

\* C17: select_log(offset), for any signed offset and any selection,
\* leaves the selection at none when the log is empty and otherwise at
\* current + offset clamped to [0, len - 1], an absent selection counting
\* as 0; it never changes the BuildState.
C17_SelectLogClamps ==
    last.type = "select_log" =>
        /\ build_state = prev
        /\ IF log_entries = <<>>
           THEN selected = None
           ELSE LET target == unwrap_or(last.selected, 0) + last.offset
                    top == Len(log_entries) - 1
                IN selected = Some(IF target < 0 THEN 0
                                   ELSE IF target > top THEN top ELSE target)

\* C17 witness: from index 0 of a three-entry log the call select_log(-1)
\* stayed at index 0.
C17_Witness ==
    /\ last.type = "select_log"
    /\ last.selected = Some(0)
    /\ last.offset = -1
    /\ Len(log_entries) = 3
    /\ selected = Some(0)

----------------------------------------------------------------------------
(* Reader thread, channel and consumer loop *)

IsPrefix(p, q) == Len(p) <= Len(q) /\ SubSeq(q, 1, Len(p)) = p

\* update applied to the messages of a sequence in turn, up to a panic.
RECURSIVE FoldUpdate(_, _)
FoldUpdate(state, messages) ==
    IF messages = <<>> THEN Ok(state)
    ELSE LET r == update(state, Head(messages))
         IN IF r.panicked THEN r ELSE FoldUpdate(r.state, Tail(messages))

\* C13: under every interleaving the messages applied so far are a prefix
\* of the messages decoded so far, with nothing lost, repeated or reordered
\* on the way: applied, channel and the reader's message in hand make up
\* exactly what was decoded, and the BuildState is update folded over the
\* applied messages.
C13_AppliedInDecodedOrder ==
    /\ IsPrefix(applied, decoded)
    /\ IsPrefix(applied \o chan, decoded)
    /\ ReceiverAlive => applied \o chan \o line_entry = decoded
    /\ build_state = FoldUpdate(new, applied).state
    /\ panicked = FoldUpdate(new, applied).panicked

\* C13 witness: two of three decoded messages have been applied while the
\* third waits in the channel, and the first two differ.
C13_Witness ==
    /\ Len(decoded) = 3
    /\ Len(applied) = 2
    /\ applied[1] # applied[2]
    /\ chan = <<decoded[3]>>
    /\ decoded[3] # decoded[2]
    /\ ~panicked

\* C14: the reader thread's send is enabled whenever it has a message to
\* send, whatever waits in the channel and wherever the consumer stands,
\* and the consumer's try_recv step is enabled whenever the loop stands at
\* it, whether the channel is empty, non-empty or closed.
C14_NeitherSideBlocks ==
    /\ producer_pc = "send" => ENABLED ProducerSend
    /\ (consumer_pc = "try_recv" /\ ~panicked)
          => ENABLED (ConsumerReceive \/ ConsumerReceiveNone)

\* C14 witness: the reader has sent three messages, none of which the
\* consumer has received yet, and holds no further one.
C14_Witness ==
    /\ Len(chan) = 3
    /\ applied = <<>>
    /\ producer_pc = "read"
    /\ ReceiverAlive

\* The consumer has just handled a terminal event.
KeyHandled == ui_event = "UserAction" /\ consumer_pc \in {"draw", "returned"}

DecodeFailed == reader_end # None /\ reader_end[1].how = "decode"

\* C15: when the reader thread ends at the end of the stream the loop of
\* run does not end with an error; what is in the channel is still applied,
\* in order, unless the user quits or update panics first; a pending key is
\* still handled; and once the channel is empty the BuildState stays as it
\* is.
C15_ConsumerOutlivesReader ==
    /\ [](consumer_pc # "failed")
    /\ (producer_pc = "done")
          ~> ((chan = <<>> /\ applied = decoded) \/ ~ReceiverAlive)
    /\ (producer_pc = "done" /\ events # <<>>) ~> (KeyHandled \/ ~ReceiverAlive)
    /\ [][(producer_pc = "done" /\ chan = <<>>) => build_state' = build_state]_vars

\* C15 witness: the stream ended with one of three messages applied; all
\* three are applied now and a key has been handled after the last one.
C15_Witness ==
    /\ reader_end # None
    /\ reader_end[1].how = "eof"
    /\ reader_end[1].applied = 1
    /\ Len(applied) = 3
    /\ applied = decoded
    /\ chan = <<>>
    /\ consumer_pc = "draw"
    /\ ui_event = "UserAction"
    /\ ~panicked

\* C16: once a line has failed to decode the reader thread has ended:
\* nothing is decoded, sent or applied beyond the messages decoded before
\* that line, and those are still applied, in order, unless the user quits
\* or update panics first, and stay applied.
C16_DecodeErrorHaltsIngestion ==
    /\ [](DecodeFailed =>
            /\ producer_pc = "decode_panic"
            /\ line_entry = None
            /\ Len(decoded) = reader_end[1].decoded
            /\ IsPrefix(applied \o chan, decoded)
            /\ build_state = FoldUpdate(new, applied).state)
    /\ DecodeFailed ~> (applied = decoded \/ ~ReceiverAlive)
    /\ [][IsPrefix(applied, applied')]_vars

\* C16 witness: the third line failed to decode before anything was
\* applied, and the two messages decoded before it are applied now.
C16_Witness ==
    /\ DecodeFailed
    /\ reader_end[1].decoded = 2
    /\ reader_end[1].applied = 0
    /\ Len(applied) = 2
    /\ applied = decoded
    /\ ~panicked

\* C18 (as claimed): a render comes only after a full drain: when run is
\* about to draw, the try_recv of this iteration left no message in the
\* channel.
C18_RenderOnlyAfterFullDrain == consumer_pc = "draw" => queued_at_recv = 0

\* C19 (as claimed): with both threads scheduled fairly a pending terminal
\* event is eventually handled, also while the reader thread keeps the
\* channel non-empty.
C19_PendingKeyEventuallyHandled ==
    (events # <<>>) ~> (KeyHandled \/ ~ReceiverAlive)

----------------------------------------------------------------------------
(* The selection in the running application *)

InRange(current, entries) == current # None /\ current[1] < Len(entries)

\* C20 (as claimed): the selection is none or the index of an entry, and
\* none whenever there is no entry.
C20_SelectionNoneOrValid == selected = None \/ InRange(selected, log_entries)

\* C20 (amended): the selection is none, or the index of an entry, or the
\* index 0 that App::new sets while there is no entry yet.
C20_SelectionNoneValidOrInitial ==
    \/ selected = None
    \/ InRange(selected, log_entries)
    \/ selected = Some(0) /\ log_entries = <<>>

\* C20 witness: with two entries the user has moved the selection to the
\* last one and pressed a key again; the selection is still the last one.
C20_Witness ==
    /\ Len(log_entries) = 2
    /\ selected = Some(1)
    /\ consumer_pc = "draw"
    /\ ui_event = "UserAction"
    /\ chan = <<>>
    /\ producer_pc = "done"

====
